---- MODULE Spec2Model ----
(***************************************************************************)
(* A model of smoldtb (src/smoldtb.c): the parser of a flattened device    *)
(* tree blob and its query functions.                                      *)
(*                                                                         *)
(* The build modelled is the default one: SMOLDTB_STATIC_BUFFER_SIZE is    *)
(* not defined (the buffers come from ops.malloc) and the host is little   *)
(* endian (be32 swaps bytes).  ops.malloc, when supplied, returns a block  *)
(* that is not in use.                                                     *)
(*                                                                         *)
(* Memory is modelled as the code sees it.  A blob is its byte image       *)
(* (header, structure block, strings block); a pointer into it is a blob   *)
(* id and a byte offset.  The parser's buffer is a block of the heap at an *)
(* address; a dtb_node* or dtb_prop* is <<address, index>>, and address 0  *)
(* is the null page.                                                       *)
(***************************************************************************)
EXTENDS Integers, Sequences, FiniteSets, TLC

----------------------------------------------------------------------------
(* Program constants                                                       *)

FDT_BEGIN_NODE == 1
FDT_END_NODE == 2
FDT_PROP == 3
FDT_NOP == 4
FDT_CELL_SIZE == 4
\* sizeof(struct fdt_header): ten uint32_t fields.
FDT_HEADER_SIZE == 40
\* parse_node(&i, 2, 1) in dtb_init: the cell widths of a top-level node.
ROOT_ADDR_CELLS == 2
ROOT_SIZE_CELLS == 1

\* 0xD00DFEED as the four bytes of a uint32_t, most significant first.
FDT_MAGIC == <<208, 13, 254, 237>>

----------------------------------------------------------------------------
(* Bounds of the model                                                     *)

\* dtb_init calls in one run of the re-initialisation scenario.
MaxInits == 2
\* Heap addresses ops.malloc can return.
MaxAddr == 2
\* Children of the root in the generated trees.
MaxKids == 2
\* Bytes of a generated string-list payload.
MaxPayload == 3
\* The largest index passed to dtb_read_prop_string and dtb_get_prop.
MaxIndex == 3
\* The largest handle passed to dtb_find_phandle; also the value an
\* uninitialised handle can hold.
MaxHandle == 4
\* The longest path given to dtb_find, in characters.
MaxPath == 4
\* The most items a cell-width tree gives its root after the reg property.
MaxCellItems == 3
\* The most top-level nodes of a blob.
MaxTops == 3

----------------------------------------------------------------------------
(* Characters and C strings                                                *)

\* The ASCII code of the characters the model uses.
Ascii ==
  [c \in {"/", "@", "#", ",", "-", "1", "2", "a", "b", "c", "d", "e", "g",
          "h", "i", "l", "m", "n", "o", "p", "r", "s", "t", "u", "x", "z"} |->
     CASE c = "/" -> 47 [] c = "@" -> 64 [] c = "#" -> 35 [] c = "," -> 44
       [] c = "-" -> 45 [] c = "1" -> 49 [] c = "2" -> 50
       [] c = "a" -> 97 [] c = "b" -> 98 [] c = "c" -> 99 [] c = "d" -> 100
       [] c = "e" -> 101 [] c = "g" -> 103 [] c = "h" -> 104 [] c = "i" -> 105
       [] c = "l" -> 108 [] c = "m" -> 109 [] c = "n" -> 110 [] c = "o" -> 111
       [] c = "p" -> 112 [] c = "r" -> 114 [] c = "s" -> 115 [] c = "t" -> 116
       [] c = "u" -> 117 [] c = "x" -> 120 [] c = "z" -> 122]

\* The bytes of a string given as a tuple of its characters (no NUL).
S(t) == [k \in 1..Len(t) |-> Ascii[t[k]]]

SLASH == Ascii["/"]
AT == Ascii["@"]

----------------------------------------------------------------------------
(* Blobs: the inputs of dtb_init                                           *)
(*                                                                         *)
(* A blob is generated from a list of tokens and encoded to bytes as the   *)
(* format lays them out.  The parser is given the bytes only; the token    *)
(* list is what the properties compare its result with.                    *)

Begin(name) == [t |-> "begin", name |-> name, val |-> <<>>]
End == [t |-> "end", name |-> <<>>, val |-> <<>>]
Prop(name, val) == [t |-> "prop", name |-> name, val |-> val]
Nop == [t |-> "nop", name |-> <<>>, val |-> <<>>]

\* A value as a big-endian cell.
BE32(v) == <<0, 0, v \div 256, v % 256>>

Pad4(bs) == bs \o [k \in 1..((4 - (Len(bs) % 4)) % 4) |-> 0]

RECURSIVE Concat(_)
Concat(ss) == IF ss = <<>> THEN <<>> ELSE Head(ss) \o Concat(Tail(ss))

n_compatible == S(<<"c","o","m","p","a","t","i","b","l","e">>)
n_phandle == S(<<"p","h","a","n","d","l","e">>)
n_linuxhandle == S(<<"l","i","n","u","x",",","p","h","a","n","d","l","e">>)
n_addrcells == S(<<"#","a","d","d","r","e","s","s","-","c","e","l","l","s">>)
n_sizecells == S(<<"#","s","i","z","e","-","c","e","l","l","s">>)
n_reg == S(<<"r","e","g">>)
n_ranges == S(<<"r","a","n","g","e","s">>)

\* The property names of the strings block, in its order.
PropNames ==
  <<n_compatible, n_phandle, n_linuxhandle, n_addrcells, n_sizecells, n_reg,
    n_ranges>>

StringsBlock == Concat([k \in 1..Len(PropNames) |-> PropNames[k] \o <<0>>])

\* The offset of a property name in the strings block.
NameOff(nm) ==
  LET k == CHOOSE j \in 1..Len(PropNames) : PropNames[j] = nm
  IN  Len(Concat([j \in 1..(k - 1) |-> PropNames[j] \o <<0>>]))

EncItem(it) ==
  CASE it.t = "begin" -> BE32(FDT_BEGIN_NODE) \o Pad4(it.name \o <<0>>)
    [] it.t = "end" -> BE32(FDT_END_NODE)
    [] it.t = "nop" -> BE32(FDT_NOP)
    [] it.t = "prop" ->
         BE32(FDT_PROP) \o BE32(Len(it.val)) \o BE32(NameOff(it.name))
           \o Pad4(it.val)

\* The structure block of a token list, closed by the format's END token (9).
EncStructs(items) ==
  Concat([k \in 1..Len(items) |-> EncItem(items[k])]) \o BE32(9)

\* The memory reservation block: its terminating entry alone.
RsvMap == [k \in 1..16 |-> 0]

\* struct fdt_header, field by field, big endian.
EncHeader(magic, size_structs, size_strings) ==
  LET off_rsv == FDT_HEADER_SIZE
      off_structs == off_rsv + Len(RsvMap)
      off_strings == off_structs + size_structs
  IN  magic \o BE32(off_strings + size_strings) \o BE32(off_structs)
        \o BE32(off_strings) \o BE32(off_rsv) \o BE32(17) \o BE32(16)
        \o BE32(0) \o BE32(size_strings) \o BE32(size_structs)

EncBlob(magic, items) ==
  LET structs == EncStructs(items)
  IN  EncHeader(magic, Len(structs), Len(StringsBlock)) \o RsvMap \o structs
        \o StringsBlock

----------------------------------------------------------------------------
(* The generated blobs                                                     *)

\* A handle no generated blob has enough nodes for.
BigHandle == 64

Node(name, props, subs) == <<Begin(name)>> \o props \o subs \o <<End>>

StrA == S(<<"a">>) \o <<0>>
StrBA == S(<<"b">>) \o <<0>> \o S(<<"a">>) \o <<0>>
\* A string list whose first string is empty.
StrEA == <<0>> \o S(<<"a">>) \o <<0>>

\* A property whose cells 1 and 3 the pre-scan of alloc_buffers counts as a
\* BEGIN_NODE and a PROP token.
Reg13 == Prop(n_reg, BE32(1) \o BE32(3))

\* The subtrees a generated root takes its children from.
KidKinds ==
  << Node(S(<<"a">>), <<>>, <<>>),
     Node(S(<<"a","@","1">>), <<Prop(n_phandle, BE32(1))>>, <<>>),
     Node(S(<<"a","@","2">>),
          <<Prop(n_compatible, StrA), Prop(n_phandle, BE32(2))>>, <<>>),
     Node(S(<<"b">>), <<Prop(n_linuxhandle, BE32(1))>>, <<>>),
     Node(S(<<"b">>), <<Prop(n_compatible, StrBA)>>,
          Node(S(<<"c">>), <<Prop(n_compatible, StrA)>>, <<>>)),
     Node(S(<<"a","b">>), <<Prop(n_phandle, BE32(BigHandle))>>, <<>>),
     Node(S(<<"c">>), <<Prop(n_phandle, <<>>)>>, <<>>),
     Node(S(<<"b","@","1">>), <<Prop(n_compatible, StrEA)>>, <<>>),
     Node(S(<<"a">>), <<Nop>>, Node(S(<<"b">>), <<>>, <<>>)),
     Node(S(<<"c">>), <<Prop(n_reg, BE32(2)), Prop(n_ranges, <<>>)>>, <<>>) >>

\* The property lists a generated root starts with.
RootProps ==
  << <<>>,
     <<Reg13>>,
     <<Reg13, Prop(n_compatible, StrA), Prop(n_phandle, BE32(3))>> >>

\* All tuples of length n over 1..k, as a sequence.
RECURSIVE Tuples(_, _)
Tuples(n, k) ==
  IF n = 0 THEN << <<>> >>
  ELSE LET prev == Tuples(n - 1, k)
       IN  [j \in 1..(Len(prev) * k) |->
              Append(prev[((j - 1) \div k) + 1], ((j - 1) % k) + 1)]

\* The choices of at most MaxKids children, each an index of KidKinds.
KidChoices == Concat([n \in 1..(MaxKids + 1) |-> Tuples(n - 1, Len(KidKinds))])

\* The token list of a tree: a root named "" with properties rp, the chosen
\* children and, when closed, its END_NODE.
TreeItems(rp, kids, closed) ==
  <<Begin(<<>>)>> \o rp \o Concat([j \in 1..Len(kids) |-> KidKinds[kids[j]]])
    \o (IF closed THEN <<End>> ELSE <<>>)

Blob(magic, items, valid) ==
  [magic |-> magic, items |-> items, valid |-> valid,
   img |-> EncBlob(magic, items)]

\* Every tree: a root property list, children, closed or cut before the
\* root's END_NODE.
TreeBlobs ==
  LET nk == Len(KidChoices)
      nr == Len(RootProps)
  IN  [j \in 1..(nk * nr * 2) |->
         LET kids == KidChoices[((j - 1) % nk) + 1]
             rp == RootProps[(((j - 1) \div nk) % nr) + 1]
             closed == ((j - 1) \div (nk * nr)) = 0
         IN  Blob(FDT_MAGIC, TreeItems(rp, kids, closed), closed)]

\* Every byte string of at most MaxPayload bytes over NUL, 'a' and 'b'.
Payloads ==
  LET alphabet == <<0, Ascii["a"], Ascii["b"]>>
      idx == Concat([n \in 1..(MaxPayload + 1) |-> Tuples(n - 1, 3)])
  IN  [j \in 1..Len(idx) |-> [k \in 1..Len(idx[j]) |-> alphabet[idx[j][k]]]]

\* A root whose compatible property holds each payload in turn.
PayloadBlobs ==
  [j \in 1..Len(Payloads) |->
     Blob(FDT_MAGIC,
          Node(<<>>, <<Reg13, Prop(n_compatible, Payloads[j])>>, <<>>), TRUE)]

\* The blobs of the re-initialisation scenario: two trees that parse, a root
\* alone, a root cut before its END_NODE, a blob with no magic and a blob whose
\* magic is stored little endian.
GoodItems1 ==
  Node(<<>>, <<Reg13, Prop(n_compatible, StrA), Prop(n_phandle, BE32(1))>>,
       Node(S(<<"a","@","1">>), <<Prop(n_phandle, BE32(2))>>, <<>>))
GoodItems2 ==
  Node(<<>>, <<Reg13>>,
       Node(S(<<"b">>), <<Prop(n_compatible, StrBA)>>, <<>>))

ReinitBlobs ==
  << Blob(FDT_MAGIC, GoodItems1, TRUE),
     Blob(FDT_MAGIC, GoodItems2, TRUE),
     Blob(FDT_MAGIC, Node(<<>>, <<>>, <<>>), TRUE),
     Blob(FDT_MAGIC, <<Begin(<<>>), Reg13, Prop(n_compatible, StrA)>>, FALSE),
     Blob(<<0, 0, 0, 0>>, GoodItems2, FALSE),
     Blob(<<237, 254, 13, 208>>, GoodItems1, FALSE) >>

\* What the root of a cell-width tree holds after its reg property: an
\* #address-cells of 3, one of 257 (more than the node's 8-bit field holds),
\* a #size-cells shorter than a cell, and a child with a #size-cells of 2 and
\* a child of its own.
CellKinds ==
  << <<Prop(n_addrcells, BE32(3))>>,
     <<Prop(n_addrcells, BE32(257))>>,
     <<Prop(n_sizecells, <<>>)>>,
     Node(S(<<"b">>), <<Prop(n_sizecells, BE32(2))>>,
          Node(S(<<"c">>), <<>>, <<>>)) >>

\* The choices of at most MaxCellItems of them, in every order.
CellChoices ==
  Concat([n \in 1..(MaxCellItems + 1) |-> Tuples(n - 1, Len(CellKinds))])

CellsBlobs ==
  [j \in 1..Len(CellChoices) |->
     Blob(FDT_MAGIC,
          Node(<<>>,
               <<Reg13>> \o Concat([k \in 1..Len(CellChoices[j]) |->
                                      CellKinds[CellChoices[j][k]]]),
               <<>>),
          TRUE)]

\* The top-level nodes a forest takes after its first.
TopKinds ==
  << Node(S(<<"a">>), <<>>, <<>>),
     Node(S(<<"b">>), <<>>, Node(S(<<"c">>), <<>>, <<>>)) >>

\* The choices of the top-level nodes after the first: at least one, at most
\* MaxTops with the first.
TopChoices ==
  Concat([n \in 1..(MaxTops - 1) |-> Tuples(n, Len(TopKinds))])

\* Every forest: a first top-level node "" with a reg property, then the
\* chosen ones, each straight after the END_NODE before it or after a NOP.
ForestBlobs ==
  LET nt == Len(TopChoices)
  IN  [j \in 1..(nt * 2) |->
         LET tops == TopChoices[((j - 1) % nt) + 1]
             gap == IF (j - 1) \div nt = 0 THEN <<>> ELSE <<Nop>>
         IN  Blob(FDT_MAGIC,
                  Node(<<>>, <<Reg13>>, <<>>)
                    \o Concat([k \in 1..Len(tops) |->
                                 gap \o TopKinds[tops[k]]]),
                  FALSE)]

Blobs ==
  ReinitBlobs \o TreeBlobs \o PayloadBlobs \o CellsBlobs \o ForestBlobs

----------------------------------------------------------------------------
(* Pointers and memory                                                     *)

\* The blob images the caller has passed to dtb_init, in the order of the
\* calls.  The parser keeps pointers into them; it never writes them.
VARIABLE mem

\* A const char* or const uint32_t*: into image b of mem at byte offset o, or
\* into a string s of the caller (or a literal of the code) at o.
BlobPtr(b, o) == [k |-> "blob", b |-> b, s |-> <<>>, o |-> o]
Lit(s) == [k |-> "lit", b |-> 0, s |-> s, o |-> 0]
NULLP == [k |-> "null", b |-> 0, s |-> <<>>, o |-> 0]

PtrAdd(p, n) == [p EXCEPT !.o = @ + n]

\* p[j] for a byte pointer p.  A caller's string ends with its NUL.
ByteAt(p, j) ==
  IF p.k = "lit"
    THEN IF p.o + j < Len(p.s) THEN p.s[p.o + j + 1] ELSE 0
    ELSE mem[p.b][p.o + j + 1]

\* p[j] for a uint32_t pointer p, as the little-endian host loads it: the
\* value's four bytes, most significant first.
CellAt(p, j) ==
  <<ByteAt(p, 4 * j + 3), ByteAt(p, 4 * j + 2), ByteAt(p, 4 * j + 1),
    ByteAt(p, 4 * j)>>

\* The number a uint32_t's bytes stand for.
U32(w) == ((w[1] * 256 + w[2]) * 256 + w[3]) * 256 + w[4]

\* A dtb_node* or dtb_prop*: <<address of the buffer, index in its table>>.
NULL == <<0, 0>>

ZeroNode ==
  [parent |-> NULL, sibling |-> NULL, child |-> NULL, props |-> NULL,
   name |-> NULLP, addr_cells |-> 0, size_cells |-> 0]

ZeroProp == [name |-> NULLP, first_cell |-> NULLP, length |-> 0, next |-> NULL]

\* A pointer that is not null and points at no object of the program.
WILD == <<-1, 0>>

----------------------------------------------------------------------------
(* Helpers of smoldtb.c                                                    *)

be32(input) == <<input[4], input[3], input[2], input[1]>>

RECURSIVE string_len_from(_, _)
string_len_from(str, count) ==
  IF ByteAt(str, count) = 0 THEN count ELSE string_len_from(str, count + 1)

string_len(str) == string_len_from(str, 0)

RECURSIVE strings_eq_from(_, _, _)
strings_eq_from(a, b, count) ==
  IF ByteAt(a, count) # ByteAt(b, count) THEN FALSE
  ELSE IF ByteAt(a, count) = 0 THEN TRUE
  ELSE strings_eq_from(a, b, count + 1)

strings_eq(a, b) == strings_eq_from(a, b, 0)

RECURSIVE strings_eq_bounded_from(_, _, _, _)
strings_eq_bounded_from(a, b, len, k) ==
  IF k >= len THEN TRUE
  ELSE IF ByteAt(a, k) = 0 /\ ByteAt(b, k) = 0 THEN TRUE
  ELSE IF ByteAt(a, k) # ByteAt(b, k) THEN FALSE
  ELSE strings_eq_bounded_from(a, b, len, k + 1)

strings_eq_bounded(a, b, len) == strings_eq_bounded_from(a, b, len, 0)

\* What string_find_char returns for "not found": ~0u.
NPOS == -1

RECURSIVE string_find_char_from(_, _, _)
string_find_char_from(str, target, k) ==
  IF ByteAt(str, k) = target THEN k
  ELSE IF ByteAt(str, k) = 0 THEN NPOS
  ELSE string_find_char_from(str, target, k + 1)

string_find_char(str, target) == string_find_char_from(str, target, 0)

dtb_align_up(input, alignment) ==
  ((input + alignment - 1) \div alignment) * alignment

----------------------------------------------------------------------------
(* The program's state                                                     *)

VARIABLES
  state,     \* struct dtb_state state
  heap,      \* the blocks ops.malloc hands out, by address
  nullpage,  \* what the memory at address 0 holds, once a write reached it
  pc,        \* where the program is: idle, entering dtb_init (init), in
             \* its loop (scan), in
             \* parse_node's loop (node), exited (on_error ended the program)
             \* or crashed (a trap)
  i,         \* dtb_init's loop variable, the offset parse_node advances
  stack,     \* the node of each parse_node call in progress, innermost last
  call,      \* the dtb_init calls so far: their number, the blob of the
             \* last one and the error messages it came to
  oob,       \* the handle_lookup indices written beyond the table
  ret,       \* the last query call and what it returned
  env        \* the scenario: "parse" (one dtb_init, any blob) or "reinit"
             \* (up to MaxInits calls, on the blobs of ReinitBlobs)

vars == <<mem, state, heap, nullpage, pc, i, stack, call, oob, ret, env>>

\* dtb_ops: whether malloc and free are supplied, and what on_error does:
\* "null" (not supplied), "returns" or "exits" (it ends the program, as the
\* demonstration driver's callback does).
OpsSet ==
  [malloc : BOOLEAN, free : BOOLEAN, on_error : {"null", "returns", "exits"}]

ZeroState ==
  [cells |-> NULLP, strings |-> NULLP, cell_count |-> 0, root |-> NULL,
   handle_lookup |-> 0, node_buff |-> 0, node_alloc_head |-> 0,
   node_alloc_max |-> 0, prop_buff |-> 0, prop_alloc_head |-> 0,
   prop_alloc_max |-> 0,
   ops |-> [malloc |-> FALSE, free |-> FALSE, on_error |-> "null"]]

UnusedBlock == [st |-> "unused", node |-> <<>>, prop |-> <<>>, handle |-> <<>>]

\* A query call and its result: the function, its arguments (a string, a
\* node or property, a number), the nodes the iteration returned before, and
\* the pointer returned (val to a node or property, str to a character).
NoRet ==
  [op |-> "none", name |-> <<>>, node |-> NULL, num |-> 0, prev |-> <<>>,
   val |-> NULL, str |-> NULLP]

\* The parser's side of the state, as the record the functions below pass on.
Machine ==
  [state |-> state, heap |-> heap, nullpage |-> nullpage, pc |-> pc, i |-> i,
   stack |-> stack, errs |-> call.errs, oob |-> oob]

Stopped(m) == m.pc \in {"exited", "crashed"}

\* *p for a dtb_node* p; address 0 is the null page.
LoadNode(m, p) ==
  IF p[1] = 0 THEN m.nullpage.node ELSE m.heap[p[1]].node[p[2] + 1]

StoreNode(m, p, rec) ==
  IF p[1] = 0 THEN [m EXCEPT !.nullpage.node = rec]
  ELSE [m EXCEPT !.heap[p[1]].node[p[2] + 1] = rec]

LoadProp(m, p) == m.heap[p[1]].prop[p[2] + 1]

StoreProp(m, p, rec) == [m EXCEPT !.heap[p[1]].prop[p[2] + 1] = rec]

\* if (state.ops.on_error) state.ops.on_error(why).  errs keeps the message of
\* every such line reached, also when no callback is supplied.
on_error(m, why) ==
  [m EXCEPT !.errs = Append(@, why),
            !.pc = IF m.state.ops.on_error = "exits" THEN "exited" ELSE @]

\* A write through a null pointer is undefined: it traps, or the page at 0 is
\* mapped and takes the write.  u is the outcome where the page's mapping is
\* not yet known.
NullDeref(m, u) ==
  IF m.nullpage.mapped \/ u = "mapped" THEN [m EXCEPT !.nullpage.mapped = TRUE]
  ELSE [m EXCEPT !.pc = "crashed"]

----------------------------------------------------------------------------
(* The region allocator                                                    *)

alloc_node(m) ==
  IF m.state.node_alloc_head + 1 < m.state.node_alloc_max
    THEN [m |-> [m EXCEPT !.state.node_alloc_head = @ + 1],
          p |-> <<m.state.node_buff, m.state.node_alloc_head>>]
    ELSE [m |-> on_error(m, "Node allocator ran out of space"), p |-> NULL]

alloc_prop(m) ==
  IF m.state.prop_alloc_head + 1 < m.state.prop_alloc_max
    THEN [m |-> [m EXCEPT !.state.prop_alloc_head = @ + 1],
          p |-> <<m.state.prop_buff, m.state.prop_alloc_head>>]
    ELSE [m |-> on_error(m, "Property allocator ran out of space"), p |-> NULL]

free_buffers(m) ==
  IF ~m.state.ops.free
    THEN on_error(m, "ops.free() is NULL while trying to free buffers.")
    ELSE [m EXCEPT !.heap[m.state.node_buff].st = "freed",
                   !.state.node_buff = 0,
                   !.state.prop_buff = 0,
                   !.state.handle_lookup = 0,
                   !.state.node_alloc_max = 0,
                   !.state.prop_alloc_max = 0]

\* The cells of the structure block that decode to the token.
CountCells(m, token) ==
  Cardinality({k \in 0..(m.state.cell_count - 1) :
                 U32(be32(CellAt(m.state.cells, k))) = token})

\* a is the address ops.malloc returns.
alloc_buffers(m, a) ==
  LET nmax == CountCells(m, FDT_BEGIN_NODE)
      pmax == CountCells(m, FDT_PROP)
      block == [st |-> "live",
                node |-> [k \in 1..nmax |-> ZeroNode],
                prop |-> [k \in 1..pmax |-> ZeroProp],
                handle |-> [k \in 1..nmax |-> NULL]]
  IN  [m EXCEPT !.heap[a] = block,
                !.state.node_alloc_max = nmax,
                !.state.prop_alloc_max = pmax,
                !.state.node_buff = a,
                !.state.node_alloc_head = 0,
                !.state.prop_buff = a,
                !.state.prop_alloc_head = 0,
                !.state.handle_lookup = a]

\* The addresses ops.malloc can return: a block freed before, or the lowest
\* address never handed out (the unused addresses are interchangeable).
MallocChoices(m) ==
  LET unused == {a \in 1..MaxAddr : m.heap[a].st = "unused"}
  IN  {a \in 1..MaxAddr : m.heap[a].st = "freed"}
        \cup {a \in unused : \A b \in unused : a <= b}

----------------------------------------------------------------------------
(* Property decoders used while parsing                                    *)

\* dtb_read_prop_cell_array(prop, cell_count, vals) for a property record:
\* the tuple count it returns and the cells it stores in vals.  The length
\* is read from the blob, two cells before the payload.
dtb_read_prop_cell_array(prop, cell_count) ==
  LET count == U32(be32(CellAt(prop.first_cell, -2)))
                 \div (cell_count * FDT_CELL_SIZE)
  IN  [count |-> count,
       vals |-> [k \in 1..(count * cell_count) |->
                   U32(be32(CellAt(prop.first_cell, k - 1)))]]

\* The uint32_t a special property is decoded into: vals[0] when the payload
\* holds a cell, else the variable stays uninitialised and holds v.
DecodedCell(prop, v) ==
  LET r == dtb_read_prop_cell_array(prop, 1)
  IN  IF r.count = 0 THEN v ELSE r.vals[1]

----------------------------------------------------------------------------
(* The special-property recognizer                                         *)

\* StoreHandleNext is a store that is not the program's: it keeps the node
\* one slot too far.
StoreHandleNext(m, handle, node, u) ==
  IF handle + 1 < m.state.node_alloc_max
    THEN [m EXCEPT !.heap[m.state.handle_lookup].handle[handle + 2] = node]
    ELSE m

\* state.handle_lookup[handle] = node.  The table has node_alloc_max slots
\* and ends the buffer: a larger index is a write outside it, which traps
\* (u = "trap") or lands in memory that is not the parser's.
StoreHandle(m, handle, node, u) ==
  IF handle < m.state.node_alloc_max
    THEN [m EXCEPT !.heap[m.state.handle_lookup].handle[handle + 1] = node]
  ELSE IF u = "trap" THEN [m EXCEPT !.pc = "crashed"]
  ELSE [m EXCEPT !.oob = @ \cup {handle}]

check_for_special_prop(m, node, prop, u, v) ==
  LET pr == LoadProp(m, prop)
      name0 == ByteAt(pr.name, 0)
      name_len == string_len(pr.name)
      is(lit) == name_len = string_len(Lit(lit)) /\ strings_eq(pr.name, Lit(lit))
      nd == LoadNode(m, node)
  IN  IF name0 # Ascii["#"] /\ name0 # Ascii["p"] /\ name0 # Ascii["l"] THEN m
      ELSE IF is(n_phandle) THEN StoreHandle(m, DecodedCell(pr, v), node, u)
      ELSE IF is(n_linuxhandle) THEN StoreHandle(m, DecodedCell(pr, v), node, u)
      ELSE IF is(n_addrcells)
        THEN StoreNode(m, node, [nd EXCEPT !.addr_cells = DecodedCell(pr, v) % 256])
      ELSE IF is(n_sizecells)
        THEN StoreNode(m, node, [nd EXCEPT !.size_cells = DecodedCell(pr, v) % 256])
      ELSE m

----------------------------------------------------------------------------
(* The structure-block parser                                              *)

\* The token at the cursor.
Token(m) == U32(be32(CellAt(m.state.cells, m.i)))

\* parse_prop(&i): the machine after it and the property it returns.  With
\* alloc_prop's NULL the three stores go through a null pointer; on the null
\* page they overwrite what the node at address 0 keeps in parent, sibling
\* and the low half of child.
parse_prop(m, u) ==
  IF Token(m) # FDT_PROP THEN [m |-> m, p |-> NULL]
  ELSE
    LET off == m.i + 1
        al == alloc_prop([m EXCEPT !.i = off])
        fdt_length == U32(be32(CellAt(m.state.cells, off)))
        fdt_name_offset == U32(be32(CellAt(m.state.cells, off + 1)))
        rec == [name |-> PtrAdd(m.state.strings, fdt_name_offset),
                first_cell |-> PtrAdd(m.state.cells, FDT_CELL_SIZE * (off + 2)),
                length |-> fdt_length]
        next_off ==
          off + (dtb_align_up(fdt_length, FDT_CELL_SIZE) \div FDT_CELL_SIZE) + 2
    IN  IF Stopped(al.m) THEN [m |-> al.m, p |-> NULL]
        ELSE IF al.p = NULL
          THEN LET d == NullDeref(al.m, u)
                   np == d.nullpage.node
               IN  [m |-> IF Stopped(d) THEN d
                          ELSE [d EXCEPT !.i = next_off,
                                         !.nullpage.node =
                                           [np EXCEPT !.parent = WILD,
                                                      !.sibling = WILD,
                                                      !.child =
                                                        IF np.child = NULL /\ fdt_length = 0
                                                          THEN NULL ELSE WILD]],
                    p |-> NULL]
        ELSE [m |-> [StoreProp(al.m, al.p,
                             [LoadProp(al.m, al.p) EXCEPT
                                !.name = rec.name,
                                !.first_cell = rec.first_cell,
                                !.length = rec.length])
                     EXCEPT !.i = next_off],
              p |-> al.p]

\* parse_node_top is an entry that is not the program's: it gives every node
\* the widths of a top-level node, whatever the caller passes.
parse_node_top(m, addr_cells, size_cells, u) ==
  LET al == alloc_node(m)
      d == IF al.p = NULL /\ ~Stopped(al.m) THEN NullDeref(al.m, u) ELSE al.m
      name == PtrAdd(m.state.cells, FDT_CELL_SIZE * (m.i + 1))
      name_len == string_len(name)
      w == StoreNode(d, al.p,
                   [LoadNode(d, al.p) EXCEPT !.name = name,
                                            !.addr_cells = ROOT_ADDR_CELLS,
                                            !.size_cells = ROOT_SIZE_CELLS])
  IN  IF Stopped(d) THEN d
      ELSE [w EXCEPT
              !.i = @ + (dtb_align_up(name_len + 1, FDT_CELL_SIZE)
                           \div FDT_CELL_SIZE) + 1,
              !.stack = Append(@, al.p),
              !.pc = "node"]

\* parse_node(&i, addr_cells, size_cells) up to its loop: the node is
\* allocated, named and pushed.  With alloc_node's NULL the stores go through
\* a null pointer.
parse_node_enter(m, addr_cells, size_cells, u) ==
  LET al == alloc_node(m)
      d == IF al.p = NULL /\ ~Stopped(al.m) THEN NullDeref(al.m, u) ELSE al.m
      name == PtrAdd(m.state.cells, FDT_CELL_SIZE * (m.i + 1))
      name_len == string_len(name)
      w == StoreNode(d, al.p,
                   [LoadNode(d, al.p) EXCEPT !.name = name,
                                            !.addr_cells = addr_cells,
                                            !.size_cells = size_cells])
  IN  IF Stopped(d) THEN d
      ELSE [w EXCEPT
              !.i = @ + (dtb_align_up(name_len + 1, FDT_CELL_SIZE)
                           \div FDT_CELL_SIZE) + 1,
              !.stack = Append(@, al.p),
              !.pc = "node"]

\* The caller's lines after parse_node returns val: parse_node itself links
\* a child into its node; dtb_init links a top-level node into the root list
\* and its for loop steps over one more cell.
parse_node_return(m, val) ==
  LET rest == SubSeq(m.stack, 1, Len(m.stack) - 1)
      m1 == [m EXCEPT !.stack = rest]
  IN  IF rest # <<>>
        THEN LET node == rest[Len(rest)]
             IN  IF val = NULL THEN m1
                 ELSE LET m2 == StoreNode(m1, val,
                                  [LoadNode(m1, val) EXCEPT
                                     !.sibling = LoadNode(m1, node).child])
                          m3 == StoreNode(m2, node,
                                  [LoadNode(m2, node) EXCEPT !.child = val])
                      IN  StoreNode(m3, val,
                                  [LoadNode(m3, val) EXCEPT !.parent = node])
        ELSE LET m2 == IF val = NULL THEN m1
                       ELSE [StoreNode(m1, val,
                                     [LoadNode(m1, val) EXCEPT
                                        !.sibling = m1.state.root])
                             EXCEPT !.state.root = val]
             IN  [m2 EXCEPT !.i = @ + 1, !.pc = "scan"]

\* One turn of parse_node's loop for the innermost call.
parse_node_step(m, u, v) ==
  LET node == m.stack[Len(m.stack)]
  IN  IF ~(m.i < m.state.cell_count)
        THEN LET e == on_error(m, "Node has no terminating tag.")
             IN  IF Stopped(e) THEN e ELSE parse_node_return(e, NULL)
      ELSE IF Token(m) = FDT_END_NODE
        THEN parse_node_return([m EXCEPT !.i = @ + 1], node)
      ELSE IF Token(m) = FDT_BEGIN_NODE
        THEN parse_node_enter(m, LoadNode(m, node).addr_cells,
                              LoadNode(m, node).size_cells, u)
      ELSE IF Token(m) = FDT_PROP
        THEN LET r == parse_prop(m, u)
             IN  IF Stopped(r.m) \/ r.p = NULL THEN r.m
                 ELSE LET m1 == StoreProp(r.m, r.p,
                                  [LoadProp(r.m, r.p) EXCEPT
                                     !.next = LoadNode(r.m, node).props])
                          m2 == StoreNode(m1, node,
                                  [LoadNode(m1, node) EXCEPT !.props = r.p])
                      IN  check_for_special_prop(m2, node, r.p, u, v)
      ELSE [m EXCEPT !.i = @ + 1]

----------------------------------------------------------------------------
(* dtb_init                                                                *)

\* dtb_init(start, ops) up to its call of alloc_buffers, start being image b
\* of mem: the machine, and whether alloc_buffers is reached.
dtb_init_check(m, b, ops) ==
  LET m0 == [m EXCEPT !.state.ops = ops]
      header == BlobPtr(b, 0)
      magic == CellAt(header, 0)
      offset_structs == CellAt(header, 2)
      offset_strings == CellAt(header, 3)
      size_structs == CellAt(header, 9)
      m1 == [m0 EXCEPT
               !.state.cells = BlobPtr(b, U32(be32(offset_structs))),
               !.state.cell_count = U32(be32(size_structs)) \div 4,
               !.state.strings = BlobPtr(b, U32(be32(offset_strings)))]
      m2 == IF m1.state.node_buff # 0 THEN free_buffers(m1) ELSE m1
  IN  IF ~ops.malloc
        THEN [m |-> on_error(m0, "ops.malloc is NULL"), go |-> FALSE]
      ELSE IF be32(magic) # FDT_MAGIC
        THEN [m |-> on_error(m0, "FDT has incorrect magic number."),
              go |-> FALSE]
      ELSE [m |-> m2, go |-> ~Stopped(m2)]

\* dtb_init(start, ops) up to its loop; a is the address ops.malloc returns.
dtb_init(m, b, ops, a) ==
  LET c == dtb_init_check(m, b, ops)
  IN  IF c.go THEN [alloc_buffers(c.m, a) EXCEPT !.i = 0, !.pc = "scan"]
      ELSE c.m

\* One turn of dtb_init's loop: it returns at the end of the structure block,
\* steps over a cell that is no BEGIN_NODE, and calls parse_node on one that
\* is.
dtb_init_scan(m, u) ==
  IF ~(m.i < m.state.cell_count) THEN [m EXCEPT !.pc = "idle"]
  ELSE IF Token(m) # FDT_BEGIN_NODE THEN [m EXCEPT !.i = @ + 1]
  ELSE parse_node_enter(m, ROOT_ADDR_CELLS, ROOT_SIZE_CELLS, u)


----------------------------------------------------------------------------
(* The query engine and the property decoders                              *)

NodeAt(p) == IF p[1] = 0 THEN nullpage.node ELSE heap[p[1]].node[p[2] + 1]

PropAt(p) == heap[p[1]].prop[p[2] + 1]

RECURSIVE dtb_find_prop_from(_, _)
dtb_find_prop_from(prop, name) ==
  IF prop = NULL THEN NULL
  ELSE LET pr == PropAt(prop)
       IN  IF string_len(pr.name) = string_len(name) /\ strings_eq(pr.name, name)
             THEN prop
             ELSE dtb_find_prop_from(pr.next, name)

dtb_find_prop(node, name) ==
  IF node = NULL THEN NULL ELSE dtb_find_prop_from(NodeAt(node).props, name)

RECURSIVE dtb_read_prop_string_from(_, _, _, _)
dtb_read_prop_string_from(pr, index, scan, curr_index) ==
  IF ~(scan < pr.length) THEN NULLP
  ELSE IF ByteAt(pr.first_cell, scan) = 0
    THEN dtb_read_prop_string_from(pr, index, scan + 1, curr_index + 1)
  ELSE IF curr_index = index THEN PtrAdd(pr.first_cell, scan)
  ELSE dtb_read_prop_string_from(pr, index, scan + 1, curr_index)

dtb_read_prop_string(prop, index) ==
  IF prop = NULL THEN NULLP
  ELSE dtb_read_prop_string_from(PropAt(prop), index, 0, 0)

\* The inner loop of dtb_find_compatible: whether a string of the compatible
\* property, from index ci on, equals str.
RECURSIVE compat_match_from(_, _, _)
compat_match_from(compat, str, ci) ==
  LET compat_str == dtb_read_prop_string(compat, ci)
  IN  IF compat_str = NULLP THEN FALSE
      ELSE IF strings_eq(compat_str, str) THEN TRUE
      ELSE compat_match_from(compat, str, ci + 1)

RECURSIVE dtb_find_compatible_from(_, _)
dtb_find_compatible_from(k, str) ==
  IF ~(k < state.node_alloc_head) THEN NULL
  ELSE LET node == <<state.node_buff, k>>
           compat == dtb_find_prop(node, Lit(n_compatible))
       IN  IF compat # NULL /\ compat_match_from(compat, str, 0) THEN node
           ELSE dtb_find_compatible_from(k + 1, str)

\* start is null or a node of the node table: its index is the pointer
\* difference divided by sizeof(dtb_node).
dtb_find_compatible(start, str) ==
  dtb_find_compatible_from(IF start = NULL THEN 0 ELSE start[2] + 1, str)

dtb_find_phandle(handle) ==
  IF handle < state.node_alloc_max
    THEN heap[state.handle_lookup].handle[handle + 1]
    ELSE NULL

RECURSIVE find_child_internal_from(_, _, _)
find_child_internal_from(scan, name, name_bounds) ==
  IF scan = NULL THEN NULL
  ELSE LET nd == NodeAt(scan)
           at == string_find_char(nd.name, AT)
           child_name_len == IF at = NPOS THEN string_len(nd.name) ELSE at
       IN  IF child_name_len = name_bounds
                /\ strings_eq_bounded(nd.name, name, name_bounds)
             THEN scan
             ELSE find_child_internal_from(nd.sibling, name, name_bounds)

find_child_internal(start, name, name_bounds) ==
  find_child_internal_from(NodeAt(start).child, name, name_bounds)

\* SkipSlash is a dtb_find that is not the program's: an if in the place of
\* the while, it skips one slash.
SkipSlash(name) == IF ByteAt(name, 0) = SLASH THEN PtrAdd(name, 1) ELSE name

\* name with its leading slashes skipped.
RECURSIVE SkipSlashes(_)
SkipSlashes(name) ==
  IF ByteAt(name, 0) = SLASH THEN SkipSlashes(PtrAdd(name, 1)) ELSE name

RECURSIVE dtb_find_from(_, _)
dtb_find_from(scan, name) ==
  IF scan = NULL THEN NULL
  ELSE LET nm == SkipSlashes(name)
           sl == string_find_char(nm, SLASH)
           seg_len == IF sl = NPOS THEN string_len(nm) ELSE sl
       IN  IF seg_len = 0 THEN scan
           ELSE dtb_find_from(find_child_internal(scan, nm, seg_len),
                              PtrAdd(nm, seg_len))

dtb_find(name) == dtb_find_from(state.root, name)

dtb_find_child(start, name) ==
  IF start = NULL THEN NULL
  ELSE find_child_internal(start, name, string_len(name))

dtb_get_sibling(node) ==
  IF node = NULL \/ NodeAt(node).sibling = NULL THEN NULL
  ELSE NodeAt(node).sibling

\* OldestChild is a dtb_get_child that is not the program's: it returns the
\* child at the end of the list, the first of the blob.
RECURSIVE LastSibling(_)
LastSibling(node) ==
  IF dtb_get_sibling(node) = NULL THEN node
  ELSE LastSibling(dtb_get_sibling(node))

OldestChild(node) ==
  IF node = NULL \/ NodeAt(node).child = NULL THEN NULL
  ELSE LastSibling(NodeAt(node).child)

dtb_get_child(node) == IF node = NULL THEN NULL ELSE NodeAt(node).child

dtb_get_parent(node) == IF node = NULL THEN NULL ELSE NodeAt(node).parent

RECURSIVE dtb_get_prop_from(_, _)
dtb_get_prop_from(prop, index) ==
  IF prop = NULL THEN NULL
  ELSE IF index = 0 THEN prop
  ELSE dtb_get_prop_from(PropAt(prop).next, index - 1)

dtb_get_prop(node, index) ==
  IF node = NULL THEN NULL ELSE dtb_get_prop_from(NodeAt(node).props, index)

----------------------------------------------------------------------------
(* The program as a state machine                                          *)

\* The blobs the scenario passes to dtb_init, and how many calls it makes.
Pool == IF env = "reinit" THEN 1..Len(ReinitBlobs) ELSE 1..Len(Blobs)
InitLimit == IF env = "reinit" THEN MaxInits ELSE 1

\* ops.free is read only when a buffer is held.
OpsChoices ==
  {ops \in OpsSet : state.node_buff = 0 => ops.free}

\* The values an uninitialised uint32_t can hold where the step reads one: a
\* property shorter than a cell is being parsed.
Indeterminate(m) ==
  IF m.pc = "node" /\ m.i < m.state.cell_count /\ Token(m) = FDT_PROP
       /\ U32(be32(CellAt(m.state.cells, m.i + 1))) < FDT_CELL_SIZE
    THEN 0..MaxHandle ELSE {0}

Commit(m) ==
  /\ state' = m.state
  /\ heap' = m.heap
  /\ nullpage' = m.nullpage
  /\ pc' = m.pc
  /\ i' = m.i
  /\ stack' = m.stack
  /\ oob' = m.oob

Init ==
  /\ mem = <<>>
  /\ state = ZeroState
  /\ heap = [a \in 1..MaxAddr |-> UnusedBlock]
  /\ nullpage = [mapped |-> FALSE, node |-> ZeroNode]
  /\ pc = "idle"
  /\ i = 0
  /\ stack = <<>>
  /\ call = [n |-> 0, blob |-> 0, errs |-> <<>>]
  /\ oob = {}
  /\ ret = NoRet
  /\ env \in {"parse", "reinit"}

\* The caller places a blob in memory, to call dtb_init on it.
LoadBlob ==
  /\ pc = "idle"
  /\ call.n < InitLimit
  /\ \E b \in Pool : mem' = Append(mem, Blobs[b].img)
                       /\ call' = [call EXCEPT !.n = @ + 1, !.blob = b]
  /\ pc' = "init"
  /\ ret' = NoRet
  /\ UNCHANGED <<state, heap, nullpage, i, stack, oob, env>>

\* dtb_init(start, ops) runs from its entry to its loop.
DtbInit ==
  /\ pc = "init"
  /\ \E ops \in OpsChoices :
       LET m0 == [Machine EXCEPT !.errs = <<>>, !.pc = "idle"]
           c == dtb_init_check(m0, call.n, ops)
       IN  \E a \in IF c.go THEN MallocChoices(c.m) ELSE {0} :
             LET m == dtb_init(m0, call.n, ops, a)
             IN  Commit(m) /\ call' = [call EXCEPT !.errs = m.errs]
  /\ UNCHANGED <<mem, ret, env>>

\* dtb_init's loop takes a turn.
Scan ==
  /\ pc = "scan"
  /\ \E u \in {"trap", "mapped"} :
       LET m == dtb_init_scan(Machine, u)
       IN  Commit(m) /\ call' = [call EXCEPT !.errs = m.errs]
  /\ UNCHANGED <<mem, ret, env>>

\* The innermost parse_node's loop takes a turn.
ParseNode ==
  /\ pc = "node"
  /\ \E u \in {"trap", "mapped"}, v \in Indeterminate(Machine) :
       LET m == parse_node_step(Machine, u, v)
       IN  Commit(m) /\ call' = [call EXCEPT !.errs = m.errs]
  /\ UNCHANGED <<mem, ret, env>>

\* The arguments the caller gives the queries.
Paths ==
  UNION {[1..n -> {SLASH, Ascii["a"], Ascii["b"]}] : n \in 0..MaxPath}

Strs == {S(<<"a">>), S(<<"b">>)}

Handles == 0..MaxHandle \cup {BigHandle}

\* The nodes and properties the caller can hold: those of the tables.
TableNodes ==
  IF state.node_buff = 0 THEN {}
  ELSE {<<state.node_buff, k>> : k \in 0..(state.node_alloc_head - 1)}

TableProps ==
  IF state.prop_buff = 0 THEN {}
  ELSE {<<state.prop_buff, k>> : k \in 0..(state.prop_alloc_head - 1)}

\* A query changes nothing of the parser: what it returns after another
\* query is what it returns as the first one after dtb_init.
Asks == pc = "idle" /\ ret = NoRet

Returns(r) ==
  /\ ret' = r
  /\ UNCHANGED <<mem, state, heap, nullpage, pc, i, stack, call, oob, env>>

Find ==
  /\ Asks
  /\ \E name \in Paths :
       Returns([NoRet EXCEPT !.op = "dtb_find", !.name = name,
                             !.val = dtb_find(Lit(name))])

\* The caller starts an iteration over the nodes compatible with str ...
FindCompatible ==
  /\ Asks
  /\ \E str \in Strs :
       Returns([NoRet EXCEPT !.op = "dtb_find_compatible", !.name = str,
                             !.val = dtb_find_compatible(NULL, Lit(str))])

\* ... and goes on from the node the last call returned; prev keeps the
\* nodes returned before.
FindCompatibleNext ==
  /\ pc = "idle"
  /\ ret.op = "dtb_find_compatible"
  /\ ret.val # NULL
  /\ Returns([ret EXCEPT !.node = ret.val, !.prev = Append(@, ret.val),
                         !.val = dtb_find_compatible(ret.val, Lit(ret.name))])

FindPhandle ==
  /\ Asks
  /\ \E handle \in Handles :
       Returns([NoRet EXCEPT !.op = "dtb_find_phandle", !.num = handle,
                             !.val = dtb_find_phandle(handle)])

ReadPropString ==
  /\ Asks
  /\ \E prop \in TableProps, index \in 0..MaxIndex :
       Returns([NoRet EXCEPT !.op = "dtb_read_prop_string", !.node = prop,
                             !.num = index,
                             !.str = dtb_read_prop_string(prop, index)])

GetChild ==
  /\ Asks
  /\ \E node \in TableNodes :
       Returns([NoRet EXCEPT !.op = "dtb_get_child", !.node = node,
                             !.val = dtb_get_child(node)])

GetSibling ==
  /\ Asks
  /\ \E node \in TableNodes :
       Returns([NoRet EXCEPT !.op = "dtb_get_sibling", !.node = node,
                             !.val = dtb_get_sibling(node)])

GetProp ==
  /\ Asks
  /\ \E node \in TableNodes, index \in 0..MaxIndex :
       Returns([NoRet EXCEPT !.op = "dtb_get_prop", !.node = node,
                             !.num = index,
                             !.val = dtb_get_prop(node, index)])

Next ==
  \/ LoadBlob \/ DtbInit \/ Scan \/ ParseNode
  \/ Find \/ FindCompatible \/ FindCompatibleNext \/ FindPhandle
  \/ ReadPropString \/ GetChild \/ GetSibling \/ GetProp

Spec == Init /\ [][Next]_vars

----------------------------------------------------------------------------
(* What the blob says: the tree its token list describes                   *)

\* The blob of the last dtb_init.
Input == Blobs[call.blob]

Range(sq) == {sq[k] : k \in 1..Len(sq)}

Reverse(sq) == [k \in 1..Len(sq) |-> sq[Len(sq) + 1 - k]]

\* A finite set of numbers as the ascending sequence.
RECURSIVE Asc(_)
Asc(set) ==
  IF set = {} THEN <<>>
  ELSE LET mn == CHOOSE x \in set : \A y \in set : x <= y
       IN  <<mn>> \o Asc(set \ {mn})

\* The positions of the tokens of a kind.
Positions(its, t) == {q \in 1..Len(its) : its[q].t = t}

\* The position of the BEGIN_NODE of the innermost node open at position q,
\* 0 at the top level.
RECURSIVE EnclFrom(_, _, _)
EnclFrom(its, q, depth) ==
  IF q = 0 THEN 0
  ELSE IF its[q].t = "end" THEN EnclFrom(its, q - 1, depth + 1)
  ELSE IF its[q].t = "begin"
    THEN IF depth = 0 THEN q ELSE EnclFrom(its, q - 1, depth - 1)
  ELSE EnclFrom(its, q - 1, depth)

Encl(its, q) == EnclFrom(its, q - 1, 0)

\* The children and the properties of the node that begins at q, in the
\* order of the blob.
ChildrenAt(its, q) == Asc({r \in Positions(its, "begin") : Encl(its, r) = q})
PropsAt(its, q) == Asc({r \in Positions(its, "prop") : Encl(its, r) = q})

\* dtb_init's loop steps over the cell after the END_NODE of a top-level
\* node: it meets every BEGIN_NODE of a blob in which none stands there.
SeesAll(its) ==
  \A q \in Positions(its, "begin") : q > 1 => its[q - 1].t # "end"

\* A parse without error that meets every BEGIN_NODE fills the tables in the
\* order of the tokens: the node of the BEGIN_NODE at q and the property of
\* the PROP at r.
NodeOf(its, q) ==
  <<state.node_buff, Cardinality({r \in Positions(its, "begin") : r < q})>>
PropOf(its, r) ==
  <<state.prop_buff, Cardinality({q \in Positions(its, "prop") : q < r})>>

\* The position of the BEGIN_NODE of a node of the table.
BeginOf(its, node) ==
  CHOOSE q \in Positions(its, "begin") : NodeOf(its, q) = node

\* dtb_init has returned and came to no error.
Parsed == pc = "idle" /\ call.n >= 1 /\ call.errs = <<>>

\* The nodes reachable from dtb_find("/") through dtb_get_child and
\* dtb_get_sibling.
RECURSIVE ReachFrom(_, _)
ReachFrom(todo, seen) ==
  IF todo = {} THEN seen
  ELSE LET node == CHOOSE x \in todo : TRUE
           more == {dtb_get_child(node), dtb_get_sibling(node)}
                     \ ({NULL, node} \cup seen)
       IN  ReachFrom((todo \ {node}) \cup more, seen \cup {node})

Reachable ==
  LET root == dtb_find(Lit(<<SLASH>>))
  IN  IF root = NULL THEN {} ELSE ReachFrom({root}, {})

----------------------------------------------------------------------------
(* Properties                                                              *)

\* C1: for a valid blob (well nested, one top-level node) given to dtb_init
\* on a fresh state with ops.malloc supplied, alloc_node never comes to its
\* exhaustion report, and once dtb_init has returned the nodes reachable from
\* dtb_find("/") through dtb_get_child and dtb_get_sibling are as many as the
\* blob has BEGIN_NODE tokens.
C1_NodeCount ==
  (call.n = 1 /\ pc # "init" /\ state.ops.malloc /\ Input.valid) =>
    /\ "Node allocator ran out of space" \notin Range(call.errs)
    /\ pc = "idle" =>
         Cardinality(Reachable) = Cardinality(Positions(Input.items, "begin"))

\* C3: dtb_init (with ops.malloc supplied) on a blob whose magic is not
\* 0xD00DFEED, in whatever state the earlier calls left, invokes on_error
\* (when supplied) exactly once and
\* leaves the parser empty: dtb_find("/") returns null afterwards.
C3_BadMagic ==
  (call.n >= 1 /\ pc \in {"idle", "exited"} /\ state.ops.malloc
     /\ Input.magic # FDT_MAGIC) =>
    /\ state.ops.on_error # "null" => Len(call.errs) = 1
    /\ pc = "idle" => dtb_find(Lit(<<SLASH>>)) = NULL

\* C4: after dtb_init(A) and then a dtb_init(B) that came to no error, the
\* root list is the one dtb_init(B) builds on a fresh state: B's single
\* top-level node with no sibling, and only nodes of B's table are reachable
\* from dtb_find("/") by child and sibling links.
C4_Teardown ==
  (Parsed /\ call.n >= 2) =>
    /\ dtb_find(Lit(<<SLASH>>)) \in TableNodes
    /\ dtb_get_sibling(dtb_find(Lit(<<SLASH>>))) = NULL
    /\ Reachable \subseteq TableNodes

\* C5: when dtb_init on a fresh state finds a node without its END_NODE and
\* on_error returns, the parser is left empty: dtb_find, dtb_find_compatible
\* from NULL and dtb_find_phandle return null for every argument.
C5_FormatError ==
  (call.n = 1 /\ pc = "idle" /\ state.ops.on_error = "returns"
     /\ "Node has no terminating tag." \in Range(call.errs)) =>
    /\ \A name \in Paths : dtb_find(Lit(name)) = NULL
    /\ \A str \in Strs : dtb_find_compatible(NULL, Lit(str)) = NULL
    /\ \A handle \in Handles : dtb_find_phandle(handle) = NULL

\* C6: a handle that is not below the pre-scan node count is dropped: no
\* memory outside the phandle table is written for it, and dtb_find_phandle
\* of such a handle returns null.
C6_HandleDropped ==
  /\ oob = {}
  /\ pc = "idle" =>
       \A handle \in Handles :
         handle >= state.node_alloc_max => dtb_find_phandle(handle) = NULL

\* The C string at a pointer, as the sequence of its characters.
RECURSIVE CStr(_)
CStr(str) ==
  IF ByteAt(str, 0) = 0 THEN <<>>
  ELSE <<ByteAt(str, 0)>> \o CStr(PtrAdd(str, 1))

IsNamed(prop, name) == CStr(PropAt(prop).name) = name

\* The properties of a node: what dtb_get_prop enumerates.
NodeProps(node) ==
  {dtb_get_prop(node, k) : k \in 0..state.prop_alloc_head} \ {NULL}

\* The handle a property of at least one cell decodes to.
HandleOf(prop) == U32(be32(CellAt(PropAt(prop).first_cell, 0)))

\* The phandle and linux,phandle properties the parser met after prop: the
\* property table is filled in the order of the blob.
LaterHandleProps(prop) ==
  {q \in TableProps :
     q[2] > prop[2] /\ (IsNamed(q, n_phandle) \/ IsNamed(q, n_linuxhandle))}

\* C2, as the specification has it: after dtb_init, dtb_find_phandle(h)
\* returns N for every node N of the node table with a property named
\* phandle whose first cell decodes to h.
C2_Phandle ==
  ret.op = "dtb_find_phandle" =>
    \A node \in TableNodes : \A prop \in NodeProps(node) :
      (/\ IsNamed(prop, n_phandle)
       /\ PropAt(prop).length >= FDT_CELL_SIZE
       /\ HandleOf(prop) = ret.num) =>
        ret.val = node

\* C2, amended: after dtb_init, dtb_find_phandle(h) returns N for every node
\* N of the node table with a property named phandle whose first cell
\* decodes to h, provided h is below the pre-scan node count and no phandle
\* or linux,phandle property later in the blob decodes to h or is shorter
\* than a cell.
C2_PhandleUnique ==
  ret.op = "dtb_find_phandle" =>
    \A node \in TableNodes : \A prop \in NodeProps(node) :
      (/\ IsNamed(prop, n_phandle)
       /\ PropAt(prop).length >= FDT_CELL_SIZE
       /\ HandleOf(prop) = ret.num
       /\ HandleOf(prop) < state.node_alloc_max
       /\ \A q \in LaterHandleProps(prop) :
            /\ PropAt(q).length >= FDT_CELL_SIZE
            /\ HandleOf(q) # HandleOf(prop)) =>
        ret.val = node

\* A node with a phandle below the node count, a linux,phandle property of
\* another handle later in the blob, and dtb_find_phandle has returned the
\* node for its handle.
C2_Witness ==
  /\ Parsed
  /\ ret.op = "dtb_find_phandle"
  /\ ret.val # NULL
  /\ \E prop \in NodeProps(ret.val) :
       /\ IsNamed(prop, n_phandle)
       /\ PropAt(prop).length >= FDT_CELL_SIZE
       /\ HandleOf(prop) = ret.num
       /\ LaterHandleProps(prop) # {}
       /\ \A q \in LaterHandleProps(prop) :
            /\ PropAt(q).length >= FDT_CELL_SIZE
            /\ HandleOf(q) # HandleOf(prop)

\* The strings of a string-list payload: the bytes between its NULs.
RECURSIVE Split(_, _)
Split(bytes, cur) ==
  IF bytes = <<>> THEN IF cur = <<>> THEN {} ELSE {cur}
  ELSE IF Head(bytes) = 0 THEN {cur} \cup Split(Tail(bytes), <<>>)
  ELSE Split(Tail(bytes), Append(cur, Head(bytes)))

\* The nodes of the blob whose compatible string list has str.
Matching(its, str) ==
  {q \in Positions(its, "begin") :
     \E r \in Range(PropsAt(its, q)) :
       its[r].name = n_compatible /\ str \in Split(its[r].val, <<>>)}

\* Every compatible property of the blob is a list of NUL-terminated
\* strings.
StringLists(its) ==
  \A r \in Positions(its, "prop") :
    its[r].name = n_compatible =>
      its[r].val = <<>> \/ its[r].val[Len(its[r].val)] = 0

\* C7: after a dtb_init that came to no error, on a blob whose compatible
\* properties are lists of NUL-terminated strings, the iteration prev =
\* dtb_find_compatible(prev, s) from NULL returns nodes in the order of the
\* node table without repeating one, makes no more calls than the table has
\* nodes before it returns null, and has then returned as many nodes as the
\* blob has nodes whose compatible string list contains s.
C7_CompatibleWalk ==
  (Parsed /\ ret.op = "dtb_find_compatible" /\ StringLists(Input.items)) =>
    LET hits == IF ret.val = NULL THEN ret.prev
                ELSE Append(ret.prev, ret.val)
    IN  /\ \A k \in 1..(Len(hits) - 1) : hits[k][2] < hits[k + 1][2]
        /\ Range(hits) \subseteq TableNodes
        /\ ret.val = NULL =>
             Len(hits) = Cardinality(Matching(Input.items, ret.name))

\* p with each run of slashes collapsed to one slash.
RECURSIVE Collapse(_)
Collapse(path) ==
  IF Len(path) < 2 THEN path
  ELSE IF path[1] = SLASH /\ path[2] = SLASH THEN Collapse(Tail(path))
  ELSE <<path[1]>> \o Collapse(Tail(path))

\* The last segment of a path: what follows its last slash, the trailing
\* slashes dropped.
RECURSIVE LastSegment(_)
LastSegment(path) ==
  IF path = <<>> THEN <<>>
  ELSE IF path[Len(path)] = SLASH
    THEN LastSegment(SubSeq(path, 1, Len(path) - 1))
  ELSE IF SLASH \in Range(path)
    THEN LastSegment(SubSeq(path, 2, Len(path)))
  ELSE path

\* A node's name up to its unit address.
RECURSIVE UpTo(_, _)
UpTo(str, c) ==
  IF str = <<>> \/ Head(str) = c THEN <<>>
  ELSE <<Head(str)>> \o UpTo(Tail(str), c)

\* C8: dtb_find(p) returns what dtb_find returns for p with every run of
\* slashes collapsed to one, and for p with a slash appended; the node it
\* returns for a path with a last segment is named by that segment, its
\* unit address after '@' left aside.
C8_SlashInvariance ==
  ret.op = "dtb_find" =>
    /\ ret.val = dtb_find(Lit(Collapse(ret.name)))
    /\ ret.val = dtb_find(Lit(ret.name \o <<SLASH>>))
    /\ (ret.val # NULL /\ LastSegment(ret.name) # <<>>) =>
         UpTo(CStr(NodeAt(ret.val).name), AT) = LastSegment(ret.name)

\* dtb_find has found a node with a unit address by a path with a run of
\* slashes.
C8_Witness ==
  /\ Parsed
  /\ ret.op = "dtb_find"
  /\ ret.val # NULL
  /\ Collapse(ret.name) # ret.name
  /\ AT \in Range(CStr(NodeAt(ret.val).name))

\* C9: for a property whose payload is n NUL-terminated strings (empty ones
\* counted), dtb_read_prop_string(prop, i) returns the pointer to the first
\* byte of string i when i < n, and null exactly when i >= n.
C9_ReadString ==
  ret.op = "dtb_read_prop_string" =>
    LET pr == PropAt(ret.node)
        index == ret.num
        nuls == {k \in 0..(pr.length - 1) : ByteAt(pr.first_cell, k) = 0}
        n == Cardinality(nuls)
        begins == <<0>> \o [k \in 1..n |-> Asc(nuls)[k] + 1]
    IN  (pr.length = 0 \/ (pr.length - 1) \in nuls) =>
          /\ index < n => ret.str = PtrAdd(pr.first_cell, begins[index + 1])
          /\ ret.str = NULLP <=> index >= n

StoppingErrors ==
  {"ops.malloc is NULL", "FDT has incorrect magic number.",
   "Node allocator ran out of space", "Property allocator ran out of space",
   "Node has no terminating tag."}

\* on_error is supplied and returns, and the dtb_init call in progress or
\* last returned has invoked it for one of the stopping errors.
Reported ==
  /\ call.n >= 1
  /\ state.ops.on_error = "returns"
  /\ call.errs # <<>>
  /\ call.errs[1] \in StoppingErrors

\* C11: within one dtb_init call, once on_error has been invoked for a
\* stopping error and has returned, dtb_init invokes it no second time and
\* goes through no failed allocation (no trap, no write to the page at 0),
\* and no later step of the call allocates a node or a property, writes the
\* tables, the root list or the phandle table, or reports again.
C11_NoResume ==
  /\ [](Reported =>
          /\ Len(call.errs) = 1
          /\ pc # "crashed"
          /\ call.n = 1 => nullpage = [mapped |-> FALSE, node |-> ZeroNode])
  /\ [][(Reported /\ pc \in {"scan", "node"}) =>
          /\ call' = call
          /\ heap' = heap
          /\ nullpage' = nullpage
          /\ oob' = oob
          /\ state' = state
          /\ pc' # "crashed"]_vars

\* The first cell of a payload of at least one cell.
FirstCell(val) == ((val[1] * 256 + val[2]) * 256 + val[3]) * 256 + val[4]

\* The position from which on the PROP tokens are still to be parsed, np of
\* them being parsed.
Frontier(its, np) ==
  LET todo == {r \in Positions(its, "prop") :
                 Cardinality({p \in Positions(its, "prop") : p < r}) >= np}
  IN  IF todo = {} THEN Len(its) + 1
      ELSE CHOOSE r \in todo : \A p \in todo : r <= p

\* The width (name is #address-cells or #size-cells, dflt the top-level
\* value) the blob gives the node that begins at q once the tokens before lim
\* are parsed: the first cell of the node's last such property before lim,
\* reduced to the 8 bits of the field when narrow; without one, what the
\* parent holds where the node begins.  -1 where that property is shorter
\* than a cell: the blob does not say.
RECURSIVE Held(_, _, _, _, _, _)
Held(its, q, name, dflt, lim, narrow) ==
  LET own == {r \in Range(PropsAt(its, q)) : its[r].name = name /\ r < lim}
  IN  IF own # {}
        THEN LET r == CHOOSE x \in own : \A y \in own : y <= x
             IN  IF Len(its[r].val) < FDT_CELL_SIZE THEN -1
                 ELSE IF narrow THEN FirstCell(its[r].val) % 256
                 ELSE FirstCell(its[r].val)
      ELSE IF Encl(its, q) = 0 THEN dflt
      ELSE Held(its, Encl(its, q), name, dflt, q, narrow)

\* Every node of the table holds the widths the blob gives it at this point
\* of the parse.
WidthsAsHeld(narrow) ==
  LET its == Input.items
      lim == Frontier(its, state.prop_alloc_head)
  IN  \A node \in TableNodes :
        LET q == BeginOf(its, node)
            a == Held(its, q, n_addrcells, ROOT_ADDR_CELLS, lim, narrow)
            z == Held(its, q, n_sizecells, ROOT_SIZE_CELLS, lim, narrow)
        IN  /\ a # -1 => NodeAt(node).addr_cells = a
            /\ z # -1 => NodeAt(node).size_cells = z

\* dtb_init is in its loop or has returned, has come to no error and has
\* met every BEGIN_NODE so far.
Parsing ==
  /\ call.n >= 1
  /\ pc \in {"scan", "node", "idle"}
  /\ call.errs = <<>>
  /\ SeesAll(Input.items)

\* The widths of a node.
Widths(node) == <<NodeAt(node).addr_cells, NodeAt(node).size_cells>>

\* The node in progress: its widths and the property attached to it last.
TopWidths == Widths(stack[Len(stack)])
TopProp == NodeAt(stack[Len(stack)]).props

\* What a step of dtb_init does to the widths, first meaning the value a node
\* takes from the first cell of a property.  A node entered from dtb_init's
\* loop starts with 2 and 1, one entered from a node with what that node
\* holds.  A property of at least one cell attached to the node in progress
\* under the name #address-cells or #size-cells sets that width to its
\* first; no other step changes a width of a node of the table.
WidthStep(first(_)) ==
  LET top == stack[Len(stack)]
      entered == Len(stack') = Len(stack) + 1
      attached ==
        pc = "node" /\ stack' = stack /\ top # NULL
          /\ TopProp' # TopProp
      named(nm) == attached /\ IsNamed(TopProp, nm)'
      cell == first(HandleOf(TopProp)')
      whole == (PropAt(TopProp).length >= FDT_CELL_SIZE)'
  IN  pc \in {"scan", "node"} =>
        /\ entered =>
             TopWidths' =
               IF stack = <<>> THEN <<ROOT_ADDR_CELLS, ROOT_SIZE_CELLS>>
               ELSE TopWidths
        /\ (named(n_addrcells) /\ whole) => TopWidths' = <<cell, TopWidths[2]>>
        /\ (named(n_sizecells) /\ whole) => TopWidths' = <<TopWidths[1], cell>>
        /\ \A node \in TableNodes \cap TableNodes' :
             (attached /\ node = top
                /\ (named(n_addrcells) \/ named(n_sizecells)))
               \/ Widths(node)' = Widths(node)

Whole(cell) == cell
Narrow(cell) == cell % 256

TopLevel(its) == Asc({q \in Positions(its, "begin") : Encl(its, q) = 0})

\* The root list: state.root and the siblings after it, as far as n nodes.
RECURSIVE RootListFrom(_, _)
RootListFrom(node, n) ==
  IF node = NULL \/ n = 0 THEN <<>>
  ELSE <<node>> \o RootListFrom(NodeAt(node).sibling, n - 1)

RootList == RootListFrom(state.root, state.node_alloc_max)

\* C13: after the first dtb_init, on a blob with several top-level nodes and
\* without error, the root list holds one node for each top-level BEGIN_NODE
\* of the blob, under its name, and no other, and dtb_find("/") returns the
\* node of the first of them.
C13_TopLevel ==
  LET its == Input.items
      tops == TopLevel(its)
      names == [k \in 1..Len(RootList) |-> CStr(NodeAt(RootList[k]).name)]
  IN  (Parsed /\ call.n = 1 /\ Len(tops) > 1) =>
        /\ Len(RootList) = Len(tops)
        /\ \A nm \in Range(names) \cup {its[tops[k]].name : k \in 1..Len(tops)} :
             Cardinality({k \in 1..Len(names) : names[k] = nm})
               = Cardinality({k \in 1..Len(tops) : its[tops[k]].name = nm})
        /\ dtb_find(Lit(<<SLASH>>)) # NULL
        /\ CStr(NodeAt(dtb_find(Lit(<<SLASH>>))).name) = its[tops[1]].name

====
